---- MODULE Spec2Model ----
(***************************************************************************)
(* MindWell (MentalHealthTracker): the journal save-then-annotate workflow *)
(* of JournalTab (handleSubmitJournal, handleDeleteJournal,                *)
(* fetchJournalEntries), the /api/generate-insight POST handler, and the   *)
(* journal_entries table they share; Home with its auth listener and       *)
(* LoginPage; MoodTrackerTab with the mood_entries table; InsightsTab.     *)
(*                                                                         *)
(* Spec      one Journal tab, the endpoint and any other caller of it      *)
(* PairSpec  two windows of one owner submitting at the same time          *)
(* MoodSpec  the Mood Tracker tab beside calls of the endpoint             *)
(* ReadSpec  the list reads of the three tabs over stores of any content   *)
(* HomeSpec  Home: sign-in, sign-out and the views                         *)
(* DeleteSpec   the Delete buttons of both tabs, confirmed or declined     *)
(* RenderSpec   renderContent over every value of Home's state             *)
(* InsightSpec  the Insights tab read while entries are being annotated    *)
(*                                                                         *)
(* Strings are sequences of one-character strings so that trim() is        *)
(* computed, not assumed.  Row ids (uuids in the store) are the naturals   *)
(* 1, 2, ... in insertion order, which also stands for created_at; the id  *)
(* 0 is the empty string ''.                                               *)
(***************************************************************************)
EXTENDS Integers, Sequences, FiniteSets, TLC

(***************************** bounds **************************************)
MaxEntries == 2      \* journal rows the store ever holds ids for
MaxDirect  == 1      \* endpoint calls made by callers other than JournalTab
MaxDeletes == 1      \* confirmed delete requests
MaxAuth    == 3      \* sign-ins and sign-outs of a Home session
MaxMoods   == 2      \* mood rows the store ever holds ids for (MoodSpec)
MaxRows     == 6     \* journal rows of a store that is read (ReadSpec)
MaxMoodRows == 8     \* mood rows of a store that is read (ReadSpec)

(***************************** values **************************************)
Tabs  == {"t1", "t2"}            \* mounted JournalTab components
Users == {"u1", "u2"}            \* owner identities (user.id)

WS    == {" "}                   \* white space

\* null (ai_insight: string | null); no text contains this character
NULL == <<"null">>

\* what the textarea may hold at a click: empty, blank, padded text
Contents == {<<>>, <<" ">>, <<" ", "a", " ">>}

\* the text typed into the textarea of tab t: a second window of the same
\* owner holds a different text
Typed(t) == IF t = "t1" THEN Contents ELSE {<<"b">>}

\* response.text() of the model: empty, blank, or a text
OracleTexts == {<<>>, <<" ">>, <<"x">>}

\* the mood buttons (one of the six), null for no selection
Moods  == {"Happy"}
NoMood == ""

\* what the note textarea may hold: blank, padded text
Notes == {<<" ">>, <<" ", "n">>}

(***************************** String.prototype.trim ***********************)
RECURSIVE trimStart(_)
trimStart(s) ==
  IF s # <<>> /\ Head(s) \in WS THEN trimStart(Tail(s)) ELSE s

RECURSIVE trimEnd(_)
trimEnd(s) ==
  IF s # <<>> /\ s[Len(s)] \in WS THEN trimEnd(SubSeq(s, 1, Len(s) - 1)) ELSE s

trimNone(s) == s

trim(s) == trimEnd(trimStart(s))

(***************************** JSON request bodies *************************)
\* A field of a parsed body: its typeof and its value.  An id is a natural
\* (0 is ''), a content is a text.
JString(v)       == [type |-> "string", v |-> v]
IdUndefined      == [type |-> "undefined", v |-> 0]
IdNumber         == [type |-> "number", v |-> 7]
ContentUndefined == [type |-> "undefined", v |-> <<>>]

Unparsable == [parsed |-> FALSE, id |-> IdUndefined, content |-> ContentUndefined]
Body(id, content) == [parsed |-> TRUE, id |-> id, content |-> content]

\* what a caller other than JournalTab may send to the endpoint
DirectBodies ==
  {Unparsable} \cup
  {Body(i, c) :
     i \in {IdUndefined, IdNumber} \cup {JString(k) : k \in 0..MaxEntries},
     c \in {ContentUndefined} \cup {JString(x) : x \in {<<>>, <<"a">>}}}

\* !id and !content
FalsyId(f)      == f.type = "undefined" \/ (f.type = "string" /\ f.v = 0)
FalsyContent(f) == f.type = "undefined" \/ (f.type = "string" /\ f.v = <<>>)

(***************************** messages ************************************)
MsgNone          == ""
MsgEmpty         == "Journal entry cannot be empty."
MsgNotAuth       == "User not authenticated."
MsgSaved         == "Journal entry saved successfully! Generating AI insight..."
MsgInsight       == "Journal entry saved and AI insight generated!"
MsgAiFailed      == "Journal entry saved. AI generation failed: "
MsgError         == "Error: "
MsgDeleted       == "Journal entry deleted successfully!"
MsgLoadFailed    == "Failed to load journal history."
MsgLinkSent      == "Magic link sent! Check your email to log in."
MsgLinkFailed    == "Failed to send magic link: "
MsgSelectMood    == "Please select a mood."
MsgMoodSaved     == "Mood saved successfully!"
MsgMoodDeleted   == "Mood entry deleted successfully!"
MsgMoodsFailed   == "Failed to load mood history."
MsgInsightsFailed == "Failed to load insights."

NoUser == ""

(***************************** state ***************************************)
VARIABLES
  mounted,              \* the JournalTab components on screen
  userId,               \* per tab: its userId prop
  journal,              \* the journal_entries table: id -> row
  nextId,               \* the id the store gives the next inserted row
  journalContent,       \* per tab: the textarea's text
  message,              \* per tab: the status message
  isSubmittingJournal,  \* per tab
  isGeneratingInsight,  \* per tab
  journalEntries,       \* per tab: the displayed list
  pc,                   \* per tab: where handleSubmitJournal is suspended
  insertReq,            \* per tab: the row of the insert in flight
  newEntry,             \* per tab: data?.[0] of the insert, [id, content]
  fetches,              \* per tab: results of list reads not yet delivered
  timers,               \* per tab: pending setTimeout callbacks, by entry id
  deletes,              \* per tab: ids of delete calls in flight
  calls,                \* per tab: store/endpoint calls of the current run
  requests,             \* the endpoint's requests in flight
  directCalls,          \* number of requests sent by other callers
  deleteCalls,          \* number of confirmed delete requests
  directStatus,         \* status of the last response to another caller
  declined,             \* the delete request last answered Cancel in confirm()
  \* Home
  currentView,          \* 'landing' | 'login' | 'dashboard'
  user,                 \* the signed-in user's id, NoUser for null
  isLoading,
  authPc,               \* where initializeAuth is suspended
  sessionRead,          \* the session getSession() has read, to be returned
  session,              \* the auth service's session: its user, or NoUser
  authEvents,           \* auth events not yet delivered to the listener
  authCalls,            \* sign-ins and sign-outs so far
  \* LoginPage
  loginMessage,
  isSending,
  \* MoodTrackerTab and the mood_entries table
  moodTable,            \* the mood_entries table: id -> row
  nextMoodId,
  selectedMood,
  moodNote,
  moodMessage,
  moodEntries,          \* the displayed mood history
  isSubmittingMood,
  moodInsertReq,        \* the row of the mood insert in flight
  moodFetches,          \* results of mood list reads not yet delivered
  moodDeletes,          \* ids of mood delete calls in flight
  \* InsightsTab
  allJournalEntries,
  insightsMessage,
  insightFetches        \* results of insights reads not yet delivered

journalVars == <<mounted, userId, journal, nextId, journalContent, message,
                 isSubmittingJournal, isGeneratingInsight, journalEntries, pc,
                 insertReq, newEntry, fetches, timers, deletes, calls,
                 requests, directCalls, deleteCalls, directStatus,
                 declined>>

homeVars == <<currentView, user, isLoading, authPc, sessionRead, session,
              authEvents,
              authCalls, loginMessage, isSending>>

moodVars == <<moodTable, nextMoodId, selectedMood, moodNote, moodMessage,
              moodEntries, isSubmittingMood, moodInsertReq, moodFetches,
              moodDeletes>>

insightsVars == <<allJournalEntries, insightsMessage, insightFetches>>

\* everything on the page beside JournalTab
pageVars == <<homeVars, moodVars, insightsVars>>

vars == <<journalVars, pageVars>>

tabVars == <<journalContent, message, isSubmittingJournal, isGeneratingInsight,
             journalEntries, pc, insertReq, newEntry, fetches, timers,
             deletes, calls, deleteCalls>>

(***************************** the store ***********************************)
JournalLimit == 5

NoRow == [user_id |-> NoUser, content |-> <<>>, ai_insight |-> NULL]

NoMoodRow == [user_id |-> NoUser, mood |-> NoMood, note |-> NULL]

Max(S) == CHOOSE m \in S : \A x \in S : x <= m

RECURSIVE Descending(_)
Descending(S) ==
  IF S = {} THEN <<>> ELSE <<Max(S)>> \o Descending(S \ {Max(S)})

\* .insert(row): the table with the row under a fresh id
InsertRow(j, id, row) ==
  [i \in DOMAIN j \cup {id} |-> IF i = id THEN row ELSE j[i]]

\* .update({ ai_insight: v }).eq('id', id)
UpdateAnyRow(j, id, v) ==
  [i \in DOMAIN j |-> [j[i] EXCEPT !.ai_insight = v]]

\* an update that creates the row it does not find
UpsertInsight(j, id, v) ==
  [i \in DOMAIN j \cup {id} |->
     IF i # id THEN j[i]
     ELSE IF i \in DOMAIN j THEN [j[i] EXCEPT !.ai_insight = v]
     ELSE [user_id |-> NoUser, content |-> <<>>, ai_insight |-> v]]

UpdateInsight(j, id, v) ==
  [i \in DOMAIN j |-> IF i = id THEN [j[i] EXCEPT !.ai_insight = v] ELSE j[i]]

\* .delete().eq('id', id).eq('user_id', uid)
DeleteById(j, id, uid) ==
  [i \in {k \in DOMAIN j : k # id} |-> j[i]]

DeleteRow(j, id, uid) ==
  [i \in {k \in DOMAIN j : ~(k = id /\ j[k].user_id = uid)} |-> j[i]]

\* .select('*').eq('user_id', uid).order('created_at', desc).limit(5)
SelectJournalAnyOwner(j, uid) ==
  LET ids == Descending(DOMAIN j)
      n   == IF Len(ids) < JournalLimit THEN Len(ids) ELSE JournalLimit
  IN  [k \in 1..n |->
         [id |-> ids[k], user_id |-> j[ids[k]].user_id,
          content |-> j[ids[k]].content, ai_insight |-> j[ids[k]].ai_insight]]

SelectJournal(j, uid) ==
  LET ids == Descending({i \in DOMAIN j : j[i].user_id = uid})
      n   == IF Len(ids) < JournalLimit THEN Len(ids) ELSE JournalLimit
  IN  [k \in 1..n |->
         [id |-> ids[k], user_id |-> j[ids[k]].user_id,
          content |-> j[ids[k]].content, ai_insight |-> j[ids[k]].ai_insight]]

\* an insights read without the ai_insight filter
SelectInsightsAll(j, uid) ==
  LET ids == Descending({i \in DOMAIN j : j[i].user_id = uid})
  IN  [k \in 1..Len(ids) |->
         [id |-> ids[k], user_id |-> j[ids[k]].user_id,
          content |-> j[ids[k]].content, ai_insight |-> j[ids[k]].ai_insight]]

\* .select('*').eq('user_id', uid).not('ai_insight', 'is', null)
\*   .order('created_at', desc)
SelectInsights(j, uid) ==
  LET ids == Descending({i \in DOMAIN j :
                           j[i].user_id = uid /\ j[i].ai_insight # NULL})
  IN  [k \in 1..Len(ids) |->
         [id |-> ids[k], user_id |-> j[ids[k]].user_id,
          content |-> j[ids[k]].content, ai_insight |-> j[ids[k]].ai_insight]]

(***************************** the mood_entries table **********************)
MoodLimit == 7

\* mood_entries.insert(row)
InsertMoodRowReplacing(m, id, row) ==
  [i \in DOMAIN m \cup {id} |-> row]

InsertMoodRow(m, id, row) ==
  [i \in DOMAIN m \cup {id} |-> IF i = id THEN row ELSE m[i]]

\* mood_entries.delete().eq('id', id).eq('user_id', uid)
DeleteMoodRow(m, id, uid) ==
  [i \in {k \in DOMAIN m : ~(k = id /\ m[k].user_id = uid)} |-> m[i]]

\* mood_entries.select('*').eq('user_id', uid).order('created_at', desc)
\*   .limit(7)
SelectMoods(m, uid) ==
  LET ids == Descending({i \in DOMAIN m : m[i].user_id = uid})
      n   == IF Len(ids) < MoodLimit THEN Len(ids) ELSE MoodLimit
  IN  [k \in 1..n |->
         [id |-> ids[k], user_id |-> m[ids[k]].user_id,
          mood |-> m[ids[k]].mood, note |-> m[ids[k]].note]]

(***************************** initial state *******************************)
NoEntry   == [id |-> 0, content |-> <<>>]
NoCalls   == [insert |-> 0, post |-> 0]

\* The store outlives the page: at mount it is empty or holds an annotated
\* row of another owner.
OtherRow == [user_id |-> "u2", content |-> <<"a">>, ai_insight |-> <<"x">>]

InitialStores == {<< >>, <<OtherRow>>}

\* no delete request was declined yet
NoRequest == <<>>

\* JournalTab as mounted, no request in flight
TabInit ==
  /\ journalContent = [t \in Tabs |-> <<>>]
  /\ message = [t \in Tabs |-> MsgNone]
  /\ isSubmittingJournal = [t \in Tabs |-> FALSE]
  /\ isGeneratingInsight = [t \in Tabs |-> FALSE]
  /\ journalEntries = [t \in Tabs |-> <<>>]
  /\ pc = [t \in Tabs |-> "idle"]
  /\ insertReq = [t \in Tabs |-> NoRow]
  /\ newEntry = [t \in Tabs |-> NoEntry]
  /\ fetches = [t \in Tabs |-> {}]
  /\ timers = [t \in Tabs |-> {}]
  /\ deletes = [t \in Tabs |-> {}]
  /\ calls = [t \in Tabs |-> NoCalls]
  /\ requests = {}
  /\ directCalls = 0
  /\ deleteCalls = 0
  /\ directStatus = 0
  /\ declined = NoRequest

\* Home with initializeAuth done for a session of u
SignedIn(u) ==
  /\ currentView = "dashboard"
  /\ user = u
  /\ isLoading = FALSE
  /\ authPc = "done"
  /\ sessionRead = u
  /\ session = u
  /\ authEvents = <<>>
  /\ authCalls = 0
  /\ loginMessage = MsgNone
  /\ isSending = FALSE

\* MoodTrackerTab as mounted over the table m
MoodInit(m) ==
  /\ moodTable = m
  /\ nextMoodId = Len(m) + 1
  /\ selectedMood = NoMood
  /\ moodNote = <<>>
  /\ moodMessage = MsgNone
  /\ moodEntries = <<>>
  /\ isSubmittingMood = FALSE
  /\ moodInsertReq = NoMoodRow
  /\ moodFetches = {}
  /\ moodDeletes = {}

\* InsightsTab as mounted
InsightsInit ==
  /\ allJournalEntries = <<>>
  /\ insightsMessage = MsgNone
  /\ insightFetches = {}

\* the dashboard of u1 with the Journal tab open
Init ==
  /\ mounted = {"t1"}
  /\ userId = [t \in Tabs |-> "u1"]
  /\ journal \in InitialStores
  /\ nextId = Len(journal) + 1
  /\ TabInit
  /\ SignedIn("u1")
  /\ MoodInit(<< >>)
  /\ InsightsInit

(***************************** JournalTab **********************************)
\* fetchJournalEntries(): the query is sent; its result is delivered later
\* by fetchJournalEntriesOk/Error, in any order with other reads.
IssueFetch(f, t, j) == [f EXCEPT ![t] = @ \cup {SelectJournal(j, userId[t])}]

\* the Save button is disabled while a submission is in flight
SubmitDisabled(t) == isSubmittingJournal[t] \/ isGeneratingInsight[t]

\* the row handleSubmitJournal sends to .insert()
NewRowUntrimmed(uid, text) ==
  [user_id |-> uid, content |-> text, ai_insight |-> NULL]

NewRow(uid, text) ==
  [user_id |-> uid, content |-> trim(text), ai_insight |-> NULL]

\* handleSubmitJournal up to its first await: the two guards, then the
\* insert is sent.  c is the text in the textarea at the click.
handleSubmitJournal(t) ==
  /\ ~SubmitDisabled(t)
  /\ pc[t] = "idle"
  /\ \E c \in Typed(t) :
       /\ journalContent' = [journalContent EXCEPT ![t] = c]
       /\ IF trim(c) = <<>>
          THEN /\ message' = [message EXCEPT ![t] = MsgEmpty]
               /\ UNCHANGED <<isSubmittingJournal, pc, insertReq, calls>>
          ELSE IF userId[t] = NoUser
          THEN /\ message' = [message EXCEPT ![t] = MsgNotAuth]
               /\ UNCHANGED <<isSubmittingJournal, pc, insertReq, calls>>
          ELSE /\ nextId <= MaxEntries
               /\ isSubmittingJournal' = [isSubmittingJournal EXCEPT ![t] = TRUE]
               /\ message' = [message EXCEPT ![t] = MsgNone]
               /\ insertReq' = [insertReq EXCEPT ![t] = NewRow(userId[t], c)]
               /\ calls' = [calls EXCEPT ![t] = [insert |-> 1, post |-> 0]]
               /\ pc' = [pc EXCEPT ![t] = "insert"]
  /\ UNCHANGED <<pageVars, declined, directStatus, mounted, userId,
                 journal, nextId, isGeneratingInsight,
                 journalEntries, newEntry, fetches, timers, deletes, requests,
                 directCalls, deleteCalls>>

SubmitFailedSilently(t) ==
  /\ message' = [message EXCEPT ![t] = MsgSaved]
  /\ isSubmittingJournal' = [isSubmittingJournal EXCEPT ![t] = FALSE]
  /\ pc' = [pc EXCEPT ![t] = "idle"]
  /\ insertReq' = [insertReq EXCEPT ![t] = NoRow]

\* the outer catch (error) and finally
SubmitFailed(t) ==
  /\ message' = [message EXCEPT ![t] = MsgError]
  /\ isSubmittingJournal' = [isSubmittingJournal EXCEPT ![t] = FALSE]
  /\ pc' = [pc EXCEPT ![t] = "idle"]
  /\ insertReq' = [insertReq EXCEPT ![t] = NoRow]

\* the insert fails: throw error
InsertError(t) ==
  /\ pc[t] = "insert"
  /\ SubmitFailed(t)
  /\ UNCHANGED <<pageVars, declined, directStatus, mounted, userId,
                 journal, nextId, journalContent,
                 isGeneratingInsight, journalEntries, newEntry, fetches, timers,
                 deletes, calls, requests, directCalls, deleteCalls>>

\* the store takes the row without error but returns no row (data empty):
\* throw new Error("Failed to retrieve new journal entry ID after insert.")
InsertNoData(t) ==
  /\ pc[t] = "insert"
  /\ journal' = InsertRow(journal, nextId, insertReq[t])
  /\ nextId' = nextId + 1
  /\ SubmitFailed(t)
  /\ UNCHANGED <<pageVars, declined, directStatus, mounted, userId,
                 journalContent, isGeneratingInsight,
                 journalEntries, newEntry, fetches, timers, deletes, calls,
                 requests, directCalls, deleteCalls>>

\* the request handleSubmitJournal sends to /api/generate-insight
NewRequestFirst(t, e) ==
  [origin |-> t, no |-> e.id, pc |-> "sent",
   body |-> Body(JString(1), JString(e.content)),
   id |-> 0, content |-> <<>>, text |-> <<>>, aiInsight |-> NULL,
   status |-> 0, generateCalls |-> 0, updateCalls |-> 0]

NewRequest(t, e) ==
  [origin |-> t, no |-> e.id, pc |-> "sent",
   body |-> Body(JString(e.id), JString(e.content)),
   id |-> 0, content |-> <<>>, text |-> <<>>, aiInsight |-> NULL,
   status |-> 0, generateCalls |-> 0, updateCalls |-> 0]

\* the insert succeeds: newEntry, the un-awaited list read, and the endpoint
\* is called
InsertOk(t) ==
  /\ pc[t] = "insert"
  /\ LET e == [id |-> nextId, content |-> insertReq[t].content] IN
       /\ journal' = InsertRow(journal, nextId, insertReq[t])
       /\ nextId' = nextId + 1
       /\ newEntry' = [newEntry EXCEPT ![t] = e]
       /\ message' = [message EXCEPT ![t] = MsgSaved]
       /\ journalContent' = [journalContent EXCEPT ![t] = <<>>]
       /\ fetches' = IssueFetch(fetches, t, journal')
       /\ isGeneratingInsight' = [isGeneratingInsight EXCEPT ![t] = TRUE]
       /\ requests' = requests \cup {NewRequest(t, e)}
       /\ calls' = [calls EXCEPT ![t].post = @ + 1]
       /\ pc' = [pc EXCEPT ![t] = "post"]
       /\ insertReq' = [insertReq EXCEPT ![t] = NoRow]
  /\ UNCHANGED <<pageVars, declined, directStatus, mounted, userId,
                 isSubmittingJournal, journalEntries, timers,
                 deletes, directCalls, deleteCalls>>

\* the request of the run tab t is suspended on
Awaited(t) ==
  {q \in requests : q.origin = t /\ q.no = newEntry[t].id}

\* finally blocks that leave isGeneratingInsight set
SubmitDoneStillGenerating(t) ==
  /\ isGeneratingInsight' = isGeneratingInsight
  /\ isSubmittingJournal' = [isSubmittingJournal EXCEPT ![t] = FALSE]
  /\ pc' = [pc EXCEPT ![t] = "idle"]
  /\ newEntry' = [newEntry EXCEPT ![t] = NoEntry]

\* both finally blocks
SubmitDone(t) ==
  /\ isGeneratingInsight' = [isGeneratingInsight EXCEPT ![t] = FALSE]
  /\ isSubmittingJournal' = [isSubmittingJournal EXCEPT ![t] = FALSE]
  /\ pc' = [pc EXCEPT ![t] = "idle"]
  /\ newEntry' = [newEntry EXCEPT ![t] = NoEntry]

\* response.ok
ResponseAlwaysOk(q) == TRUE

ResponseOk(q) == q.status = 200

\* response.ok: the delayed re-read is scheduled
InsightOk(t) ==
  /\ pc[t] = "post"
  /\ \E q \in Awaited(t) :
       /\ q.pc = "done"
       /\ ResponseOk(q)
       /\ requests' = requests \ {q}
  /\ timers' = [timers EXCEPT ![t] = @ \cup {newEntry[t].id}]
  /\ SubmitDone(t)
  /\ UNCHANGED <<pageVars, declined, directStatus, mounted, userId,
                 journal, nextId, journalContent, message,
                 journalEntries, insertReq, fetches, deletes, calls,
                 directCalls, deleteCalls>>

\* !response.ok: throw, catch (aiError)
InsightFailed(t) ==
  /\ pc[t] = "post"
  /\ \E q \in Awaited(t) :
       /\ q.pc = "done"
       /\ ~ResponseOk(q)
       /\ requests' = requests \ {q}
  /\ message' = [message EXCEPT ![t] = MsgAiFailed]
  /\ SubmitDone(t)
  /\ UNCHANGED <<pageVars, declined, directStatus, mounted, userId,
                 journal, nextId, journalContent,
                 journalEntries, insertReq, fetches, timers, deletes, calls,
                 directCalls, deleteCalls>>

\* fetch() rejects: the request never reaches the endpoint, or the response
\* is lost while the endpoint goes on with the request
InsightNetworkError(t) ==
  /\ pc[t] = "post"
  /\ \E q \in Awaited(t) :
       requests' = IF q.pc \in {"sent", "done"} THEN requests \ {q} ELSE requests
  /\ message' = [message EXCEPT ![t] = MsgAiFailed]
  /\ SubmitDone(t)
  /\ UNCHANGED <<pageVars, declined, directStatus, mounted, userId,
                 journal, nextId, journalContent,
                 journalEntries, insertReq, fetches, timers, deletes, calls,
                 directCalls, deleteCalls>>

\* the setTimeout callback scheduled by the run of entry e
InsightTimer(t, e) ==
  /\ e \in timers[t]
  /\ timers' = [timers EXCEPT ![t] = @ \ {e}]
  /\ fetches' = IssueFetch(fetches, t, journal)
  /\ message' = [message EXCEPT ![t] = MsgInsight]
  /\ UNCHANGED <<pageVars, declined, directStatus, mounted, userId,
                 journal, nextId, journalContent,
                 isSubmittingJournal, isGeneratingInsight, journalEntries, pc,
                 insertReq, newEntry, deletes, calls, requests, directCalls,
                 deleteCalls>>

\* fetchJournalEntries after its await
fetchJournalEntriesOk(t, f) ==
  /\ f \in fetches[t]
  /\ fetches' = [fetches EXCEPT ![t] = @ \ {f}]
  /\ journalEntries' = [journalEntries EXCEPT ![t] = f]
  /\ UNCHANGED <<pageVars, declined, directStatus, mounted, userId,
                 journal, nextId, journalContent, message,
                 isSubmittingJournal, isGeneratingInsight, pc, insertReq,
                 newEntry, timers, deletes, calls, requests, directCalls,
                 deleteCalls>>

fetchJournalEntriesError(t, f) ==
  /\ f \in fetches[t]
  /\ fetches' = [fetches EXCEPT ![t] = @ \ {f}]
  /\ message' = [message EXCEPT ![t] = MsgLoadFailed]
  /\ UNCHANGED <<pageVars, declined, directStatus, mounted, userId,
                 journal, nextId, journalContent,
                 isSubmittingJournal, isGeneratingInsight, journalEntries, pc,
                 insertReq, newEntry, timers, deletes, calls, requests,
                 directCalls, deleteCalls>>

\* a decline that sends the delete all the same
DeclinedButDeleted(t, id) ==
  /\ id \in 1..(nextId - 1)
  /\ id \notin deletes[t]
  /\ declined' = <<"journal", id>>
  /\ deletes' = [deletes EXCEPT ![t] = @ \cup {id}]
  /\ UNCHANGED <<pageVars, directStatus, mounted, userId,
                 journal, nextId, journalContent, message,
                 isSubmittingJournal, isGeneratingInsight, journalEntries, pc,
                 insertReq, newEntry, fetches, timers, calls, requests,
                 directCalls, deleteCalls>>

\* handleDeleteJournal(id), confirm() declined: return
handleDeleteJournalDeclined(t, id) ==
  /\ id \in 1..(nextId - 1)
  /\ declined' = <<"journal", id>>
  /\ UNCHANGED <<pageVars, directStatus, mounted, userId,
                 journal, nextId, journalContent, message,
                 isSubmittingJournal, isGeneratingInsight, journalEntries, pc,
                 insertReq, newEntry, fetches, timers, deletes, calls, requests,
                 directCalls, deleteCalls>>

\* handleDeleteJournal(id), confirmed, up to its await
handleDeleteJournal(t, id) ==
  /\ id \in 1..(nextId - 1)
  /\ id \notin deletes[t]
  /\ deleteCalls < MaxDeletes
  /\ deleteCalls' = deleteCalls + 1
  /\ message' = [message EXCEPT ![t] = MsgNone]
  /\ deletes' = [deletes EXCEPT ![t] = @ \cup {id}]
  /\ UNCHANGED <<pageVars, declined, directStatus, mounted, userId,
                 journal, nextId, journalContent,
                 isSubmittingJournal, isGeneratingInsight, journalEntries, pc,
                 insertReq, newEntry, fetches, timers, calls, requests,
                 directCalls>>

DeleteOk(t, id) ==
  /\ id \in deletes[t]
  /\ deletes' = [deletes EXCEPT ![t] = @ \ {id}]
  /\ journal' = DeleteRow(journal, id, userId[t])
  /\ message' = [message EXCEPT ![t] = MsgDeleted]
  /\ fetches' = IssueFetch(fetches, t, journal')
  /\ UNCHANGED <<pageVars, declined, directStatus, mounted, userId,
                 nextId, journalContent, isSubmittingJournal,
                 isGeneratingInsight, journalEntries, pc, insertReq, newEntry,
                 timers, calls, requests, directCalls, deleteCalls>>

DeleteError(t, id) ==
  /\ id \in deletes[t]
  /\ deletes' = [deletes EXCEPT ![t] = @ \ {id}]
  /\ message' = [message EXCEPT ![t] = MsgError]
  /\ UNCHANGED <<pageVars, declined, directStatus, mounted, userId,
                 journal, nextId, journalContent,
                 isSubmittingJournal, isGeneratingInsight, journalEntries, pc,
                 insertReq, newEntry, fetches, timers, calls, requests,
                 directCalls, deleteCalls>>

\* the mount effect of JournalTab: if (userId) fetchJournalEntries()
fetchJournalEntries(t) ==
  /\ userId[t] # NoUser
  /\ fetches' = IssueFetch(fetches, t, journal)
  /\ UNCHANGED <<pageVars, declined, directStatus, mounted, userId,
                 journal, nextId, journalContent, message,
                 isSubmittingJournal, isGeneratingInsight, journalEntries, pc,
                 insertReq, newEntry, timers, deletes, calls, requests,
                 directCalls, deleteCalls>>

(***************************** MoodTrackerTab ******************************)
\* the mount effect, and every later call: the query is sent; its result is
\* delivered by fetchMoodEntriesOk/Error
fetchMoodEntries ==
  /\ user # NoUser
  /\ moodFetches' = moodFetches \cup {SelectMoods(moodTable, user)}
  /\ UNCHANGED <<moodTable, nextMoodId, selectedMood, moodNote, moodMessage,
                 moodEntries, isSubmittingMood, moodInsertReq, moodDeletes>>
  /\ UNCHANGED <<journalVars, homeVars, insightsVars>>

fetchMoodEntriesOk(f) ==
  /\ f \in moodFetches
  /\ moodFetches' = moodFetches \ {f}
  /\ moodEntries' = f
  /\ UNCHANGED <<moodTable, nextMoodId, selectedMood, moodNote, moodMessage,
                 isSubmittingMood, moodInsertReq, moodDeletes>>
  /\ UNCHANGED <<journalVars, homeVars, insightsVars>>

fetchMoodEntriesError(f) ==
  /\ f \in moodFetches
  /\ moodFetches' = moodFetches \ {f}
  /\ moodMessage' = MsgMoodsFailed
  /\ UNCHANGED <<moodTable, nextMoodId, selectedMood, moodNote, moodEntries,
                 isSubmittingMood, moodInsertReq, moodDeletes>>
  /\ UNCHANGED <<journalVars, homeVars, insightsVars>>

\* a row that carries the note as typed
NewMoodRowUntrimmed(uid, m, n) ==
  [user_id |-> uid, mood |-> m, note |-> IF n = <<>> THEN NULL ELSE n]

\* the row handleSubmitMood sends to .insert()
NewMoodRow(uid, m, n) ==
  [user_id |-> uid, mood |-> m,
   note |-> IF trim(n) = <<>> THEN NULL ELSE trim(n)]

\* handleSubmitMood up to its await: m is the mood selected and n the note
\* typed at the click
handleSubmitMood ==
  /\ ~isSubmittingMood
  /\ \E m \in Moods \cup {NoMood}, n \in Notes :
       /\ selectedMood' = m
       /\ moodNote' = n
       /\ IF m = NoMood
          THEN /\ moodMessage' = MsgSelectMood
               /\ UNCHANGED <<isSubmittingMood, moodInsertReq>>
          ELSE IF user = NoUser
          THEN /\ moodMessage' = MsgNotAuth
               /\ UNCHANGED <<isSubmittingMood, moodInsertReq>>
          ELSE /\ nextMoodId <= MaxMoods
               /\ isSubmittingMood' = TRUE
               /\ moodMessage' = MsgNone
               /\ moodInsertReq' = NewMoodRow(user, m, n)
  /\ UNCHANGED <<moodTable, nextMoodId, moodEntries, moodFetches, moodDeletes>>
  /\ UNCHANGED <<journalVars, homeVars, insightsVars>>

\* the insert succeeds
MoodInsertOk ==
  /\ isSubmittingMood
  /\ moodTable' = InsertMoodRow(moodTable, nextMoodId, moodInsertReq)
  /\ nextMoodId' = nextMoodId + 1
  /\ moodMessage' = MsgMoodSaved
  /\ selectedMood' = NoMood
  /\ moodNote' = <<>>
  /\ moodFetches' = moodFetches \cup {SelectMoods(moodTable', user)}
  /\ isSubmittingMood' = FALSE
  /\ moodInsertReq' = NoMoodRow
  /\ UNCHANGED <<moodEntries, moodDeletes>>
  /\ UNCHANGED <<journalVars, homeVars, insightsVars>>

\* the insert fails: throw error, catch, finally
MoodInsertError ==
  /\ isSubmittingMood
  /\ moodMessage' = MsgError
  /\ isSubmittingMood' = FALSE
  /\ moodInsertReq' = NoMoodRow
  /\ UNCHANGED <<moodTable, nextMoodId, selectedMood, moodNote, moodEntries,
                 moodFetches, moodDeletes>>
  /\ UNCHANGED <<journalVars, homeVars, insightsVars>>

\* handleDeleteMood(id), confirm() declined: return
handleDeleteMoodDeclined(id) ==
  /\ id \in 1..(nextMoodId - 1)
  /\ declined' = <<"mood", id>>
  /\ UNCHANGED <<mounted, userId, journal, nextId, journalContent, message,
                 isSubmittingJournal, isGeneratingInsight, journalEntries, pc,
                 insertReq, newEntry, fetches, timers, deletes, calls,
                 requests, directCalls, deleteCalls, directStatus>>
  /\ UNCHANGED <<pageVars>>

\* handleDeleteMood(id), confirmed, up to its await
handleDeleteMood(id) ==
  /\ id \in 1..(nextMoodId - 1)
  /\ id \notin moodDeletes
  /\ moodMessage' = MsgNone
  /\ moodDeletes' = moodDeletes \cup {id}
  /\ UNCHANGED <<moodTable, nextMoodId, selectedMood, moodNote, moodEntries,
                 isSubmittingMood, moodInsertReq, moodFetches>>
  /\ UNCHANGED <<journalVars, homeVars, insightsVars>>

MoodDeleteOk(id) ==
  /\ id \in moodDeletes
  /\ moodDeletes' = moodDeletes \ {id}
  /\ moodTable' = DeleteMoodRow(moodTable, id, user)
  /\ moodMessage' = MsgMoodDeleted
  /\ moodFetches' = moodFetches \cup {SelectMoods(moodTable', user)}
  /\ UNCHANGED <<nextMoodId, selectedMood, moodNote, moodEntries,
                 isSubmittingMood, moodInsertReq>>
  /\ UNCHANGED <<journalVars, homeVars, insightsVars>>

MoodDeleteError(id) ==
  /\ id \in moodDeletes
  /\ moodDeletes' = moodDeletes \ {id}
  /\ moodMessage' = MsgError
  /\ UNCHANGED <<moodTable, nextMoodId, selectedMood, moodNote, moodEntries,
                 isSubmittingMood, moodInsertReq, moodFetches>>
  /\ UNCHANGED <<journalVars, homeVars, insightsVars>>

(***************************** InsightsTab *********************************)
\* the mount effect: if (userId) fetchAllJournalEntries(), up to its await
fetchAllJournalEntries ==
  /\ user # NoUser
  /\ insightFetches' = insightFetches \cup {SelectInsights(journal, user)}
  /\ UNCHANGED <<allJournalEntries, insightsMessage>>
  /\ UNCHANGED <<journalVars, homeVars, moodVars>>

fetchAllJournalEntriesOk(f) ==
  /\ f \in insightFetches
  /\ insightFetches' = insightFetches \ {f}
  /\ allJournalEntries' = f
  /\ UNCHANGED insightsMessage
  /\ UNCHANGED <<journalVars, homeVars, moodVars>>

fetchAllJournalEntriesError(f) ==
  /\ f \in insightFetches
  /\ insightFetches' = insightFetches \ {f}
  /\ insightsMessage' = MsgInsightsFailed
  /\ UNCHANGED allJournalEntries
  /\ UNCHANGED <<journalVars, homeVars, moodVars>>

(***************************** Home ****************************************)
\* Home as constructed: the listener is registered and initializeAuth waits
\* for getSession(); the auth service may hold a session from an earlier
\* visit.  No tab is mounted.
HomeInit ==
  /\ currentView = "landing"
  /\ user = NoUser
  /\ isLoading = TRUE
  /\ authPc = "getSession"
  /\ sessionRead = NoUser
  /\ session \in {NoUser} \cup Users
  /\ authEvents = <<>>
  /\ authCalls = 0
  /\ loginMessage = MsgNone
  /\ isSending = FALSE
  /\ mounted = {}
  /\ userId = [t \in Tabs |-> NoUser]
  /\ journal = << >>
  /\ nextId = 1
  /\ TabInit
  /\ MoodInit(<< >>)
  /\ InsightsInit

AuthEvent(name, u) == [event |-> name, user |-> u]

\* setCurrentView(view); LoginPage loses its state when it leaves the screen
Show(view) ==
  /\ currentView' = view
  /\ loginMessage' = IF view = "login" /\ currentView = "login"
                      THEN loginMessage ELSE MsgNone
  /\ isSending' = IF view = "login" /\ currentView = "login"
                   THEN isSending ELSE FALSE

\* if (session?.user) { setUser; dashboard } else { setUser(null); landing }
\* setIsLoading(false)
ApplyKeepingView(u) ==
  /\ user' = u
  /\ Show(currentView)
  /\ isLoading' = FALSE

ApplySession(u) ==
  /\ user' = u
  /\ Show(IF u # NoUser THEN "dashboard" ELSE "landing")
  /\ isLoading' = FALSE

\* the magic link is followed: the auth service signs u in
SignIn(u) ==
  /\ authCalls < MaxAuth
  /\ authCalls' = authCalls + 1
  /\ session' = u
  /\ authEvents' = Append(authEvents, AuthEvent("SIGNED_IN", u))
  /\ UNCHANGED <<currentView, user, isLoading, authPc, sessionRead, loginMessage,
                 isSending>>
  /\ UNCHANGED <<journalVars, moodVars, insightsVars>>

\* the callback given to onAuthStateChange
onAuthStateChange ==
  /\ authEvents # <<>>
  /\ ApplySession(Head(authEvents).user)
  /\ authEvents' = Tail(authEvents)
  /\ UNCHANGED <<authPc, sessionRead, session, authCalls>>
  /\ UNCHANGED <<journalVars, moodVars, insightsVars>>

\* supabase.auth.getSession() at work: it reads the session it will return,
\* some time before initializeAuth resumes
getSessionReads ==
  /\ authPc = "getSession"
  /\ authPc' = "read"
  /\ sessionRead' = session
  /\ UNCHANGED <<currentView, user, isLoading, session, authEvents, authCalls,
                 loginMessage, isSending>>
  /\ UNCHANGED <<journalVars, moodVars, insightsVars>>

\* initializeAuth after await getSession()
getSessionOk ==
  /\ authPc = "read"
  /\ authPc' = "done"
  /\ ApplySession(sessionRead)
  /\ UNCHANGED <<sessionRead, session, authEvents, authCalls>>
  /\ UNCHANGED <<journalVars, moodVars, insightsVars>>

\* getSession() throws: catch { console.error; landing; setIsLoading(false) }
getSessionThrows ==
  /\ authPc \in {"getSession", "read"}
  /\ authPc' = "failed"
  /\ Show("landing")
  /\ isLoading' = FALSE
  /\ UNCHANGED <<user, sessionRead, session, authEvents, authCalls>>
  /\ UNCHANGED <<journalVars, moodVars, insightsVars>>

\* onLogout: await supabase.auth.signOut()
onLogout ==
  /\ currentView = "dashboard" /\ ~isLoading /\ user # NoUser
  /\ authCalls < MaxAuth
  /\ authCalls' = authCalls + 1
  /\ session' = NoUser
  /\ authEvents' = Append(authEvents, AuthEvent("SIGNED_OUT", NoUser))
  /\ UNCHANGED <<currentView, user, isLoading, authPc, sessionRead, loginMessage,
                 isSending>>
  /\ UNCHANGED <<journalVars, moodVars, insightsVars>>

\* signOut() returns an error: onLogout does not look at it
onLogoutError ==
  /\ currentView = "dashboard" /\ ~isLoading /\ user # NoUser
  /\ authCalls < MaxAuth
  /\ authCalls' = authCalls + 1
  /\ UNCHANGED <<currentView, user, isLoading, authPc, sessionRead, session,
                 authEvents,
                 loginMessage, isSending>>
  /\ UNCHANGED <<journalVars, moodVars, insightsVars>>

\* LandingPage: onLoginClick
onLoginClick ==
  /\ currentView = "landing" /\ ~isLoading
  /\ Show("login")
  /\ UNCHANGED <<user, isLoading, authPc, sessionRead, session, authEvents,
                 authCalls>>
  /\ UNCHANGED <<journalVars, moodVars, insightsVars>>

\* LoginPage: onBackToLanding
onBackToLanding ==
  /\ currentView = "login" /\ ~isLoading
  /\ Show("landing")
  /\ UNCHANGED <<user, isLoading, authPc, sessionRead, session, authEvents,
                 authCalls>>
  /\ UNCHANGED <<journalVars, moodVars, insightsVars>>

\* LoginPage: handleLogin up to await signInWithOtp
handleLogin ==
  /\ currentView = "login" /\ ~isLoading /\ ~isSending
  /\ loginMessage' = MsgNone
  /\ isSending' = TRUE
  /\ UNCHANGED <<currentView, user, isLoading, authPc, sessionRead, session,
                 authEvents,
                 authCalls>>
  /\ UNCHANGED <<journalVars, moodVars, insightsVars>>

LoginOk ==
  /\ isSending
  /\ loginMessage' = MsgLinkSent
  /\ isSending' = FALSE
  /\ UNCHANGED <<currentView, user, isLoading, authPc, sessionRead, session,
                 authEvents,
                 authCalls>>
  /\ UNCHANGED <<journalVars, moodVars, insightsVars>>

LoginError ==
  /\ isSending
  /\ loginMessage' = MsgLinkFailed
  /\ isSending' = FALSE
  /\ UNCHANGED <<currentView, user, isLoading, authPc, sessionRead, session,
                 authEvents,
                 authCalls>>
  /\ UNCHANGED <<journalVars, moodVars, insightsVars>>

\* the message text Home has on screen: renderContent shows "Loading...",
\* LandingPage (no message), LoginPage (its message) or DashboardPage (no
\* message of its own)
Rendered ==
  IF isLoading THEN "Loading..."
  ELSE IF currentView = "login" THEN loginMessage
  ELSE MsgNone

\* a renderContent whose 'dashboard' case does not look at user
PageUnguarded ==
  IF isLoading THEN "Loading"
  ELSE IF currentView = "login" THEN "LoginPage"
  ELSE IF currentView = "dashboard" THEN "DashboardPage"
  ELSE "LandingPage"

\* what renderContent returns: the Loading screen, one of the three pages, or
\* null
Page ==
  IF isLoading THEN "Loading"
  ELSE IF currentView = "login" THEN "LoginPage"
  ELSE IF currentView = "dashboard"
       THEN (IF user = NoUser THEN "null" ELSE "DashboardPage")
  ELSE "LandingPage"

\* renderContent, case 'dashboard': if (!user) { navigateTo('landing');
\* return null; }
renderContent ==
  /\ ~isLoading /\ currentView = "dashboard" /\ user = NoUser
  /\ Show("landing")
  /\ UNCHANGED <<user, isLoading, authPc, sessionRead, session, authEvents,
                 authCalls>>
  /\ UNCHANGED <<journalVars, moodVars, insightsVars>>

HomeNext ==
  \/ \E u \in Users : SignIn(u)
  \/ onAuthStateChange
  \/ getSessionReads
  \/ getSessionOk
  \/ getSessionThrows
  \/ onLogout
  \/ onLogoutError
  \/ onLoginClick
  \/ onBackToLanding
  \/ handleLogin
  \/ LoginOk
  \/ LoginError

HomeSpec == HomeInit /\ [][HomeNext]_vars

(***************************** RenderSpec **********************************)
\* renderContent over every value of the three state variables of Home it
\* reads, with Home running on from there
RenderInit ==
  /\ currentView \in {"landing", "login", "dashboard"}
  /\ user \in {NoUser} \cup Users
  /\ isLoading \in BOOLEAN
  /\ authPc = "getSession"
  /\ sessionRead = NoUser
  /\ session \in {NoUser} \cup Users
  /\ authEvents = <<>>
  /\ authCalls = 0
  /\ loginMessage = MsgNone
  /\ isSending = FALSE
  /\ mounted = {}
  /\ userId = [t \in Tabs |-> NoUser]
  /\ journal = << >>
  /\ nextId = 1
  /\ TabInit
  /\ MoodInit(<< >>)
  /\ InsightsInit

RenderNext ==
  \/ HomeNext
  \/ renderContent

RenderSpec == RenderInit /\ [][RenderNext]_vars

(***************************** /api/generate-insight ***********************)
NoBody == Unparsable

\* somebody still reads the response of q
HasReader(q) ==
  \E t \in mounted : pc[t] = "post" /\ q.origin = t /\ q.no = newEntry[t].id

\* return NextResponse.json({ message, aiInsight }, { status }): the response
\* stays in flight while somebody reads it
Response(q, status) ==
  [q EXCEPT !.pc = "done", !.status = status, !.text = <<>>, !.body = NoBody]

Respond(q, status) ==
  (requests \ {q}) \cup (IF HasReader(q) THEN {Response(q, status)} ELSE {})

\* the status another caller gets for q
StatusAfter(q, status) == IF q.origin = "direct" THEN status ELSE directStatus

\* the id/content check of the handler
InvalidBodyLoose(b) == FalsyId(b.id) \/ FalsyContent(b.content)

InvalidBody(b) ==
  \/ FalsyId(b.id) \/ b.id.type # "string"
  \/ FalsyContent(b.content) \/ b.content.type # "string"

\* POST up to the await of model.generateContent: req.json(), the check of
\* id and content, then the model is called
Receive(q) ==
  requests' =
    IF ~q.body.parsed \/ InvalidBody(q.body)
    THEN Respond(q, 400)
    ELSE (requests \ {q}) \cup
           {[q EXCEPT !.pc = "generate", !.body = NoBody,
                      !.id = q.body.id.v, !.content = q.body.content.v,
                      !.generateCalls = @ + 1]}

\* the request of a JournalTab reaches the endpoint
POST(q) ==
  /\ q.pc = "sent"
  /\ Receive(q)
  /\ UNCHANGED <<pageVars, declined, directStatus, mounted, userId,
                 journal, nextId, directCalls>>
  /\ UNCHANGED tabVars

GenerateThrowsRetry(q) ==
  /\ q.pc = "generate"
  /\ requests' = (requests \ {q}) \cup {[q EXCEPT !.generateCalls = @ + 1]}
  /\ UNCHANGED <<pageVars, declined, directStatus, mounted, userId,
                 journal, nextId, directCalls>>
  /\ UNCHANGED tabVars

\* generateContent throws: the outer catch answers 500
GenerateThrows(q) ==
  /\ q.pc = "generate"
  /\ requests' = Respond(q, 500)
  /\ directStatus' = StatusAfter(q, 500)
  /\ UNCHANGED <<pageVars, declined, mounted, userId, journal, nextId, directCalls>>
  /\ UNCHANGED tabVars

\* aiInsight after "if (!aiInsight || aiInsight.trim() === '') aiInsight = null"
InsightKept(text) == text

InsightOrNull(text) == IF text = <<>> \/ trim(text) = <<>> THEN NULL ELSE text

\* generateContent returns text; the update is sent
Generated(q) ==
  /\ q.pc = "generate"
  /\ \E text \in OracleTexts :
       requests' = (requests \ {q}) \cup
         {[q EXCEPT !.pc = "update", !.text = text,
                    !.aiInsight = InsightOrNull(text), !.updateCalls = @ + 1]}
  /\ UNCHANGED <<pageVars, declined, directStatus, mounted, userId,
                 journal, nextId, directCalls>>
  /\ UNCHANGED tabVars

UpdateErrorUnreported(q) ==
  /\ q.pc = "update"
  /\ requests' = Respond(q, 200)
  /\ directStatus' = StatusAfter(q, 200)
  /\ UNCHANGED <<pageVars, declined, mounted, userId, journal, nextId, directCalls>>
  /\ UNCHANGED tabVars

\* the update returns updateError: 500
UpdateError(q) ==
  /\ q.pc = "update"
  /\ requests' = Respond(q, 500)
  /\ directStatus' = StatusAfter(q, 500)
  /\ UNCHANGED <<pageVars, declined, mounted, userId, journal, nextId, directCalls>>
  /\ UNCHANGED tabVars

\* the update is applied: 200
UpdateOk(q) ==
  /\ q.pc = "update"
  /\ journal' = UpdateInsight(journal, q.id, q.aiInsight)
  /\ requests' = Respond(q, 200)
  /\ directStatus' = StatusAfter(q, 200)
  /\ UNCHANGED <<pageVars, declined, mounted, userId, nextId, directCalls>>
  /\ UNCHANGED tabVars

\* a request to the endpoint from any other caller (curl, another page)
DirectRequest(n, b) ==
  [origin |-> "direct", no |-> n, pc |-> "sent", body |-> b, id |-> 0,
   content |-> <<>>, text |-> <<>>, aiInsight |-> NULL, status |-> 0,
   generateCalls |-> 0, updateCalls |-> 0]

\* a request of any other caller reaches the endpoint
DirectCall ==
  /\ directCalls < MaxDirect
  /\ directCalls' = directCalls + 1
  /\ \E b \in DirectBodies :
       /\ Receive(DirectRequest(directCalls + 1, b))
       /\ directStatus' = IF ~b.parsed \/ InvalidBody(b) THEN 400
                                                         ELSE directStatus
  /\ UNCHANGED <<pageVars, declined, mounted, userId, journal, nextId>>
  /\ UNCHANGED tabVars

(***************************** specification *******************************)
Ids  == 1..MaxEntries

Next ==
  \/ \E t \in mounted : handleSubmitJournal(t)
  \/ \E t \in mounted : InsertError(t)
  \/ \E t \in mounted : InsertNoData(t)
  \/ \E t \in mounted : InsertOk(t)
  \/ \E t \in mounted : InsightOk(t)
  \/ \E t \in mounted : InsightFailed(t)
  \/ \E t \in mounted : InsightNetworkError(t)
  \/ \E t \in mounted, e \in Ids : InsightTimer(t, e)
  \/ \E t \in mounted : \E f \in fetches[t] : fetchJournalEntriesOk(t, f)
  \/ \E t \in mounted : \E f \in fetches[t] : fetchJournalEntriesError(t, f)
  \/ \E t \in mounted, id \in Ids : handleDeleteJournal(t, id)
  \/ \E t \in mounted, id \in Ids : DeleteOk(t, id)
  \/ \E t \in mounted, id \in Ids : DeleteError(t, id)
  \/ \E q \in requests : POST(q)
  \/ \E q \in requests : GenerateThrows(q)
  \/ \E q \in requests : Generated(q)
  \/ \E q \in requests : UpdateError(q)
  \/ \E q \in requests : UpdateOk(q)
  \/ DirectCall

Spec == Init /\ [][Next]_vars

(***************************** the mood tab and the endpoint ****************)
MoodIds == 1..MaxMoods

\* a mood row of another owner
OtherMood == [user_id |-> "u2", mood |-> "Sad", note |-> <<"n">>]

\* the dashboard of u1 with the Mood Tracker tab open; the stores hold what
\* earlier visits left
MoodSpecInit ==
  /\ mounted = {}
  /\ userId = [t \in Tabs |-> "u1"]
  /\ journal = <<OtherRow>>
  /\ nextId = Len(journal) + 1
  /\ TabInit
  /\ SignedIn("u1")
  /\ \E m \in {<< >>, <<OtherMood>>} : MoodInit(m)
  /\ InsightsInit

MoodNext ==
  \/ fetchMoodEntries
  \/ \E f \in moodFetches : fetchMoodEntriesOk(f)
  \/ \E f \in moodFetches : fetchMoodEntriesError(f)
  \/ handleSubmitMood
  \/ MoodInsertOk
  \/ MoodInsertError
  \/ \E id \in MoodIds : handleDeleteMood(id)
  \/ \E id \in MoodIds : MoodDeleteOk(id)
  \/ \E id \in MoodIds : MoodDeleteError(id)
  \/ DirectCall
  \/ \E q \in requests : GenerateThrows(q)
  \/ \E q \in requests : Generated(q)
  \/ \E q \in requests : UpdateError(q)
  \/ \E q \in requests : UpdateOk(q)

MoodSpec == MoodSpecInit /\ [][MoodNext]_vars

(***************************** two windows of one owner *********************)
\* the Journal tab of u1 open in two windows over an empty store; the
\* submissions of both windows, their endpoint requests and their timers
\* interleave freely, while the results of the list reads they issue are
\* still on their way
PairInit ==
  /\ mounted = Tabs
  /\ userId = [t \in Tabs |-> "u1"]
  /\ journal = << >>
  /\ nextId = 1
  /\ TabInit
  /\ SignedIn("u1")
  /\ MoodInit(<< >>)
  /\ InsightsInit

PairNext ==
  \/ \E t \in mounted : handleSubmitJournal(t)
  \/ \E t \in mounted : InsertError(t)
  \/ \E t \in mounted : InsertOk(t)
  \/ \E t \in mounted : InsightOk(t)
  \/ \E t \in mounted : InsightFailed(t)
  \/ \E t \in mounted : InsightNetworkError(t)
  \/ \E t \in mounted, e \in Ids : InsightTimer(t, e)
  \/ \E q \in requests : POST(q)
  \/ \E q \in requests : GenerateThrows(q)
  \/ \E q \in requests : Generated(q)
  \/ \E q \in requests : UpdateError(q)
  \/ \E q \in requests : UpdateOk(q)

PairSpec == PairInit /\ [][PairNext]_vars

(***************************** the list reads ******************************)
\* the stores a tab may find at mount
JournalRows ==
  {[user_id |-> "u1", content |-> <<"a">>, ai_insight |-> NULL],
   [user_id |-> "u1", content |-> <<"a">>, ai_insight |-> <<"x">>],
   OtherRow}

JournalStores == UNION {[1..n -> JournalRows] : n \in 0..MaxRows}

MoodRows == {[user_id |-> "u1", mood |-> "Happy", note |-> NULL], OtherMood}

MoodStores == UNION {[1..n -> MoodRows] : n \in 0..MaxMoodRows}

\* the dashboard of u1 over a store of any content; each tab reads its list
ReadInit ==
  /\ mounted = {"t1"}
  /\ userId = [t \in Tabs |-> "u1"]
  /\ \/ journal \in JournalStores /\ MoodInit(<< >>)
     \/ journal = << >> /\ \E m \in MoodStores : MoodInit(m)
  /\ nextId = Len(journal) + 1
  /\ TabInit
  /\ SignedIn("u1")
  /\ InsightsInit

ReadNext ==
  \/ \E t \in mounted : fetchJournalEntries(t)
  \/ \E t \in mounted : \E f \in fetches[t] : fetchJournalEntriesOk(t, f)
  \/ \E t \in mounted : \E f \in fetches[t] : fetchJournalEntriesError(t, f)
  \/ fetchMoodEntries
  \/ \E f \in moodFetches : fetchMoodEntriesOk(f)
  \/ \E f \in moodFetches : fetchMoodEntriesError(f)
  \/ fetchAllJournalEntries
  \/ \E f \in insightFetches : fetchAllJournalEntriesOk(f)
  \/ \E f \in insightFetches : fetchAllJournalEntriesError(f)

ReadSpec == ReadInit /\ [][ReadNext]_vars

(***************************** InsightSpec *********************************)
\* u1 submits journal entries and opens the Insights tab while the endpoint
\* is still at work on them: the insights reads interleave with the inserts,
\* the model calls and the updates.  The results of the journal list reads
\* stay on their way.
InsightSpecInit ==
  /\ mounted = {"t1"}
  /\ userId = [t \in Tabs |-> "u1"]
  /\ journal \in InitialStores
  /\ nextId = Len(journal) + 1
  /\ TabInit
  /\ SignedIn("u1")
  /\ MoodInit(<< >>)
  /\ InsightsInit

InsightNext ==
  \/ \E t \in mounted : handleSubmitJournal(t)
  \/ \E t \in mounted : InsertError(t)
  \/ \E t \in mounted : InsertOk(t)
  \/ \E t \in mounted : InsightOk(t)
  \/ \E t \in mounted : InsightFailed(t)
  \/ \E t \in mounted : InsightNetworkError(t)
  \/ \E q \in requests : POST(q)
  \/ \E q \in requests : GenerateThrows(q)
  \/ \E q \in requests : Generated(q)
  \/ \E q \in requests : UpdateError(q)
  \/ \E q \in requests : UpdateOk(q)
  \/ fetchAllJournalEntries
  \/ \E f \in insightFetches : fetchAllJournalEntriesOk(f)
  \/ \E f \in insightFetches : fetchAllJournalEntriesError(f)

InsightSpec == InsightSpecInit /\ [][InsightNext]_vars

(***************************** DeleteSpec **********************************)
\* the dashboard of u1 over a store that holds rows of u1 and of u2, with
\* the Journal tab or the Mood Tracker tab open: the list is read, and the
\* Delete buttons are clicked, with confirm() answered either way
DeleteInit ==
  /\ mounted = {"t1"}
  /\ userId = [t \in Tabs |-> "u1"]
  /\ \/ journal \in [1..MaxEntries -> JournalRows] /\ MoodInit(<< >>)
     \/ journal = << >> /\ \E m \in [1..MaxMoods -> MoodRows] : MoodInit(m)
  /\ nextId = Len(journal) + 1
  /\ TabInit
  /\ SignedIn("u1")
  /\ InsightsInit

DeleteNext ==
  \/ \E t \in mounted : fetchJournalEntries(t)
  \/ \E t \in mounted : \E f \in fetches[t] : fetchJournalEntriesOk(t, f)
  \/ \E t \in mounted : \E f \in fetches[t] : fetchJournalEntriesError(t, f)
  \/ \E t \in mounted, id \in Ids : handleDeleteJournalDeclined(t, id)
  \/ \E t \in mounted, id \in Ids : handleDeleteJournal(t, id)
  \/ \E t \in mounted, id \in Ids : DeleteOk(t, id)
  \/ \E t \in mounted, id \in Ids : DeleteError(t, id)
  \/ fetchMoodEntries
  \/ \E f \in moodFetches : fetchMoodEntriesOk(f)
  \/ \E f \in moodFetches : fetchMoodEntriesError(f)
  \/ \E id \in MoodIds : handleDeleteMoodDeclined(id)
  \/ \E id \in MoodIds : handleDeleteMood(id)
  \/ \E id \in MoodIds : MoodDeleteOk(id)
  \/ \E id \in MoodIds : MoodDeleteError(id)

DeleteSpec == DeleteInit /\ [][DeleteNext]_vars

(***************************** properties **********************************)
\* a text of white space only (or empty)
Blank(s) == \A k \in 1..Len(s) : s[k] \in WS

\* r is c without its leading and trailing white space
IsTrimOf(r, c) ==
  /\ r = <<>> \/ (r[1] \notin WS /\ r[Len(r)] \notin WS)
  /\ \E a \in 0..Len(c) :
       /\ a + Len(r) <= Len(c)
       /\ \A k \in 1..Len(c) :
            IF k > a /\ k <= a + Len(r) THEN c[k] = r[k - a] ELSE c[k] \in WS

\* the rows a step leaves as they were
RowKept(i) == i \in DOMAIN journal' /\ journal'[i] = journal[i]

\* the run of tab t is at the step where its insert returned a row
InsertReturnsRow(t) == pc[t] = "insert" /\ pc'[t] = "post"

\* C1: a submission with non-blank content by an owner whose insert
\* succeeds creates exactly one journal entry: of that owner, holding the
\* trimmed content, with ai_insight null, no other row changing at that
\* step.  However the endpoint call ends, no other step of the workflow
\* creates a row (rows appear one at a time and only when an insert
\* returns) or changes the owner or content of a row.
C1_SubmitCreatesOneEntry ==
  [][/\ \A t \in mounted :
          InsertReturnsRow(t) =>
            /\ ~Blank(journalContent[t])
            /\ Cardinality(DOMAIN journal' \ DOMAIN journal) = 1
            /\ \A i \in DOMAIN journal' \ DOMAIN journal :
                 /\ journal'[i].user_id = userId[t]
                 /\ IsTrimOf(journal'[i].content, journalContent[t])
                 /\ journal'[i].ai_insight = NULL
                 /\ newEntry'[t].id = i
            /\ \A i \in DOMAIN journal : RowKept(i)
     /\ DOMAIN journal' \ DOMAIN journal # {} =>
          /\ Cardinality(DOMAIN journal' \ DOMAIN journal) = 1
          /\ \E t \in mounted : pc[t] = "insert" /\ pc'[t] # "insert"
     /\ \A i \in DOMAIN journal \cap DOMAIN journal' :
          /\ journal'[i].user_id = journal[i].user_id
          /\ journal'[i].content = journal[i].content
    ]_vars

\* C1 witness: the entry of a run whose endpoint call failed is in the store,
\* trimmed and not annotated
C1_Witness ==
  \E t \in mounted : \E i \in DOMAIN journal :
    /\ message[t] = MsgAiFailed
    /\ journal[i] = [user_id |-> userId[t], content |-> <<"a">>,
                     ai_insight |-> NULL]

\* C2 as claimed: once the endpoint has answered a request for which the
\* model returned a non-blank text S, the entry named by the request has
\* ai_insight = S.
C2_Original ==
  \A q \in requests :
    (q.pc = "done" /\ q.aiInsight # NULL) =>
      (q.id \in DOMAIN journal /\ journal[q.id].ai_insight = q.aiInsight)

\* C2 as amended: when the model returned a non-blank text S for entry id I
\* and the update is applied, every row with id I has ai_insight = S after
\* that step and every other row is unchanged (when the update fails
\* nothing is written and nothing retries).
C2_UpdateSetsOnlyThatEntry ==
  [][\A q \in requests :
       (UpdateOk(q) /\ ~Blank(q.text)) =>
         /\ DOMAIN journal' = DOMAIN journal
         /\ \A i \in DOMAIN journal :
              IF i = q.id THEN journal'[i] = [journal[i] EXCEPT !.ai_insight = q.text]
                          ELSE journal'[i] = journal[i]
    ]_vars

\* C2 witness: the endpoint answered 200 for a run whose text is now the
\* ai_insight of its entry, beside another row
C2_Witness ==
  \E q \in requests :
    /\ q.pc = "done" /\ q.status = 200 /\ q.aiInsight = <<"x">>
    /\ q.id \in DOMAIN journal /\ journal[q.id].ai_insight = <<"x">>
    /\ journal[q.id].user_id = "u1"
    /\ \E i \in DOMAIN journal : i # q.id

\* C3: an entry's ai_insight goes from null to a value only by the update of
\* a request naming that entry whose model call returned a non-blank text;
\* a request whose model call threw or returned a blank text issues no
\* update that sets it, and JournalTab sends one request per entry, so the
\* entry of such a run keeps ai_insight null under every later step of the
\* workflow.
C3_BlankOrFailedNeverSets ==
  [][/\ \A i \in DOMAIN journal \cap DOMAIN journal' :
          (journal[i].ai_insight = NULL /\ journal'[i].ai_insight # NULL) =>
            \E q \in requests :
              /\ q.pc = "update" /\ q.id = i /\ ~Blank(q.text)
              /\ journal'[i].ai_insight = q.text
     /\ \A q \in requests :
          /\ (q.pc = "update" /\ Blank(q.text)) => q.aiInsight = NULL
          /\ q.pc = "generate" =>
               \A p \in requests' :
                 (p.origin = q.origin /\ p.no = q.no /\ p.pc = "update") =>
                   p.aiInsight = (IF Blank(p.text) THEN NULL ELSE p.text)
          /\ \A p \in requests :
               (p.origin = q.origin /\ p.no = q.no) => p = q
    ]_vars

\* C3 witness: the endpoint answered a run whose model call gave nothing,
\* and the run's entry is in the store with ai_insight null
C3_Witness ==
  \E t \in mounted : \E q \in Awaited(t) :
    /\ q.pc = "done" /\ q.aiInsight = NULL /\ q.updateCalls = 1
    /\ q.id \in DOMAIN journal /\ journal[q.id].ai_insight = NULL

\* C4 as claimed: once an entry's ai_insight is set, no step (endpoint calls
\* naming its id included) changes it or sets it back to null.
C4_Original ==
  [][\A i \in DOMAIN journal \cap DOMAIN journal' :
       journal[i].ai_insight # NULL =>
         journal'[i].ai_insight = journal[i].ai_insight
    ]_vars

\* C4 as amended: as long as no caller other than handleSubmitJournal has
\* called the endpoint, an entry's ai_insight, once set, is never changed or
\* set back to null (each submission sends one request, for its own new id).
\* A change of a set ai_insight is always the update of a request naming that
\* id, and needs a call by another caller: the update is unconditional, so
\* of two requests naming one id the later update overwrites the earlier
\* value, or clears it when the model returned a blank text.
C4_OnlySecondRequestOverwrites ==
  [][\A i \in DOMAIN journal \cap DOMAIN journal' :
       (journal[i].ai_insight # NULL
          /\ journal'[i].ai_insight # journal[i].ai_insight) =>
         /\ directCalls > 0
         /\ \E q \in requests :
              /\ q.pc = "update" /\ q.id = i
              /\ journal'[i].ai_insight = q.aiInsight
    ]_vars

\* C4 witness: no other caller has called the endpoint, the entry of a
\* finished submission is annotated, and the update of a later submission is
\* about to be applied
C4_Witness ==
  \E q \in requests : \E i \in DOMAIN journal :
    /\ directCalls = 0
    /\ q.origin \in Tabs /\ q.pc = "update" /\ q.id # i
    /\ journal[i].user_id = userId[q.origin]
    /\ journal[i].ai_insight # NULL

\* C5: when a confirmed delete of entry I by its owner succeeds, I is gone
\* from the store and from the list read issued then, the rows of every
\* other owner are unchanged (a delete naming another owner's row removes
\* nothing), a removed id never comes back, and every list read issued
\* returns only rows that are in the store and belong to the reader.
C5_DeleteRemovesOnlyOwnEntry ==
  [][/\ \A t \in mounted : \A id \in Ids :
          DeleteOk(t, id) =>
            /\ (id \in DOMAIN journal /\ journal[id].user_id = userId[t]) =>
                 id \notin DOMAIN journal'
            /\ \A i \in DOMAIN journal :
                 (journal[i].user_id # userId[t] \/ i # id) => RowKept(i)
     /\ \A i \in 1..(nextId - 1) :
          i \notin DOMAIN journal => i \notin DOMAIN journal'
     /\ \A t \in mounted : \A f \in fetches'[t] \ fetches[t] :
          \A k \in 1..Len(f) :
            /\ f[k].id \in DOMAIN journal'
            /\ f[k].user_id = userId[t]
    ]_vars

\* C5 witness: the owner's entry was deleted while another owner's row is
\* still there, and the list read issued by the delete is on its way
C5_Witness ==
  \E t \in mounted :
    /\ message[t] = MsgDeleted
    /\ \E i \in 1..(nextId - 1) : i \notin DOMAIN journal
    /\ \E i \in DOMAIN journal : journal[i].user_id # userId[t]
    /\ fetches[t] # {}

\* the step at which handleSubmitJournal(t) is called
Clicked(t) == handleSubmitJournal(t)

\* C6: a submission whose content is empty or white space only ends at once
\* with the validation message: no insert is sent, no endpoint request and
\* no list read is issued, the run does not start, and the store is
\* unchanged.
C6_BlankSubmissionRejected ==
  [][\A t \in mounted :
       (Clicked(t) /\ Blank(journalContent'[t])) =>
         /\ message'[t] = MsgEmpty
         /\ journal' = journal /\ nextId' = nextId
         /\ requests' = requests
         /\ insertReq' = insertReq /\ calls' = calls
         /\ fetches' = fetches /\ timers' = timers /\ deletes' = deletes
         /\ pc'[t] = "idle"
         /\ ~isSubmittingJournal'[t] /\ ~isGeneratingInsight'[t]
    ]_vars

\* C6 witness: a white-space-only text was submitted and rejected
C6_Witness ==
  \E t \in mounted :
    /\ journalContent[t] = <<" ">>
    /\ message[t] = MsgEmpty
    /\ pc[t] = "idle"

\* C7: when the insert fails (store error, or no row comes back) the run
\* ends there with the error message: no endpoint request is sent, no list
\* read or timer is started, both flags are off.  A request of a tab only
\* ever appears at the step where its insert returned a row, so none is sent
\* for the failed submission later either.
C7_InsertFailureIsTerminal ==
  [][/\ \A t \in mounted :
          (pc[t] = "insert" /\ pc'[t] = "idle") =>
            /\ message'[t] = MsgError
            /\ requests' = requests
            /\ fetches' = fetches /\ timers' = timers
            /\ calls'[t].post = 0
            /\ ~isSubmittingJournal'[t] /\ ~isGeneratingInsight'[t]
     /\ \A q \in requests' \ requests :
          (q.origin \in Tabs /\ q.pc = "sent") =>
            /\ InsertReturnsRow(q.origin)
            /\ q.no = newEntry'[q.origin].id
     /\ \A q \in requests :
          (q.origin \in Tabs /\ q.pc # "sent") => q.id = q.no
    ]_vars

\* C7 witness: a run ended on a failed insert
C7_Witness ==
  \E t \in mounted :
    /\ pc[t] = "idle" /\ message[t] = MsgError
    /\ calls[t] = [insert |-> 1, post |-> 0]
    /\ ~Blank(journalContent[t])

\* the run of tab t ends its wait for the endpoint
LeavesPost(t) == pc[t] = "post" /\ pc'[t] = "idle"

\* C8 as claimed: when the endpoint call of a run fails (network error or
\* non-success response; no full-success timer is scheduled), then even with
\* no other caller of the endpoint the run's entry, if nobody deleted it, has
\* ai_insight null, the step removes or changes no row and issues no delete,
\* and the message says the entry was saved while AI generation failed.
C8_Original ==
  [][\A t \in mounted :
       (LeavesPost(t) /\ timers'[t] = timers[t] /\ directCalls = 0) =>
         /\ message'[t] = MsgAiFailed
         /\ journal' = journal /\ deletes' = deletes
         /\ newEntry[t].id \in DOMAIN journal =>
              journal[newEntry[t].id].ai_insight = NULL
    ]_vars

\* C8 as amended: when the endpoint call of a run fails, the step that
\* handles it changes no row, issues no delete, list read or timer, and sets
\* the message "Journal entry saved. AI generation failed"; a non-success
\* response always ends the run this way.  A non-success response, and a
\* request that never reached the endpoint, mean the endpoint wrote nothing
\* for the run: a row's ai_insight changes only in the step that applies an
\* update, which answers 200.  Only when fetch rejects after the endpoint has
\* taken the request may the entry be annotated all the same.
C8_FailureKeepsEntry ==
  [][/\ \A t \in mounted :
          /\ (LeavesPost(t) /\ timers'[t] = timers[t]) =>
               /\ message'[t] = MsgAiFailed
               /\ journal' = journal /\ nextId' = nextId
               /\ deletes' = deletes /\ fetches' = fetches
               /\ ~isSubmittingJournal'[t] /\ ~isGeneratingInsight'[t]
          /\ \A q \in Awaited(t) :
               /\ (LeavesPost(t) /\ q.pc = "done" /\ q.status # 200) =>
                    timers'[t] = timers[t]
               /\ (LeavesPost(t) /\ q.pc \in {"sent", "done"}) =>
                    q \notin requests'
     /\ \A q \in requests' \ requests :
          (q.pc = "done" /\ q.status # 200) => journal' = journal
     /\ \A i \in DOMAIN journal \cap DOMAIN journal' :
          journal'[i].ai_insight # journal[i].ai_insight =>
            \E q \in requests :
              /\ q.pc = "update" /\ q.id = i
              /\ HasReader(q) => Response(q, 200) \in requests'
    ]_vars

\* C8 witness: the endpoint answered 500 after a failed update, the run ended
\* with the failure message, and its entry is in the store with ai_insight
\* null
C8_Witness ==
  \E t \in mounted : \E i \in DOMAIN journal :
    /\ pc[t] = "idle" /\ message[t] = MsgAiFailed
    /\ timers[t] = {}
    /\ journal[i].user_id = userId[t] /\ journal[i].ai_insight = NULL
    /\ requests = {} /\ directCalls = 0 /\ deleteCalls = 0

\* C9 as claimed: a run that ends on the response of a request whose model
\* call failed or returned a blank text (aiInsight null) is reported with the
\* partial-success message and schedules no full-success timer.
C9_Claim ==
  [][\A t \in mounted : \A q \in Awaited(t) :
       (LeavesPost(t) /\ q.pc = "done" /\ q.aiInsight = NULL) =>
         /\ message'[t] = MsgAiFailed
         /\ timers'[t] = timers[t]
    ]_vars

\* C10: a run that passed the two guards has sent exactly one insert and at
\* most one endpoint request; a request has called the model at most once
\* and sent at most one update, and only after its model call; no two
\* requests belong to one run.
C10_NoStepRepeated ==
  /\ \A t \in mounted :
       /\ calls[t] = NoCalls \/ calls[t].insert = 1
       /\ calls[t].post <= 1
       /\ pc[t] # "idle" => calls[t].insert = 1
       /\ pc[t] = "post" <=> (calls[t].post = 1 /\ newEntry[t] # NoEntry)
  /\ \A q \in requests :
       /\ q.generateCalls <= 1
       /\ q.updateCalls <= q.generateCalls
       /\ q.pc = "sent" => q.generateCalls = 0
       /\ q.pc = "generate" => q.updateCalls = 0
       /\ \A p \in requests : (p.origin = q.origin /\ p.no = q.no) => p = q

\* C10 witness: a run at its end: one insert, one endpoint request, one model
\* call, one update
C10_Witness ==
  \E t \in mounted : \E q \in Awaited(t) :
    /\ q.pc = "done" /\ q.generateCalls = 1 /\ q.updateCalls = 1
    /\ calls[t] = [insert |-> 1, post |-> 1]

\* C11 as claimed: an update is sent to the store only for a request whose
\* model call returned a non-blank text.
C11_Claim ==
  [][\A q \in requests' \ requests : q.pc = "update" => ~Blank(q.text)]_vars

\* the requests of the run (or call) of q that are still to be served
Unserved(q, R) ==
  {p \in R : p.origin = q.origin /\ p.no = q.no /\ p.pc # "done"}

\* C12: when the update of a request fails, the endpoint writes nothing and
\* deletes nothing, answers 500 to whoever reads the response, and the
\* request is over (no second update); the run that reads the 500 shows
\* "Journal entry saved. AI generation failed" and schedules no timer, no
\* list read and no delete.  With no other caller of the endpoint the entry
\* of that run is still in the store as inserted, ai_insight null.
C12_UpdateFailureReported ==
  [][/\ \A q \in requests :
          UpdateError(q) =>
            /\ journal' = journal /\ nextId' = nextId /\ deletes' = deletes
            /\ HasReader(q) => Response(q, 500) \in requests'
            /\ q.origin = "direct" => directStatus' = 500
            /\ Unserved(q, requests') = {}
            /\ q.updateCalls = 1
     /\ \A t \in mounted : \A q \in Awaited(t) :
          (q.pc = "done" /\ q.status = 500) =>
            /\ (directCalls = 0 /\ deleteCalls = 0) =>
                 /\ q.id \in DOMAIN journal
                 /\ journal[q.id] = NewRow(userId[t], journal[q.id].content)
            /\ LeavesPost(t) =>
                 /\ message'[t] = MsgAiFailed
                 /\ journal' = journal
                 /\ timers' = timers /\ fetches' = fetches
                 /\ deletes' = deletes
                 /\ Unserved(q, requests') = {}
    ]_vars

\* C12 witness: the model returned a text, the update failed, the endpoint
\* answered 500 and the entry is in the store with ai_insight null
C12_Witness ==
  \E t \in mounted : \E q \in Awaited(t) :
    /\ q.pc = "done" /\ q.status = 500 /\ q.updateCalls = 1
    /\ q.aiInsight = <<"x">>
    /\ q.id \in DOMAIN journal /\ journal[q.id].ai_insight = NULL

\* a body that cannot be parsed, or whose id or content is missing, empty or
\* not a string
Malformed(b) ==
  \/ ~b.parsed
  \/ b.id.type # "string" \/ b.id.v = 0
  \/ b.content.type # "string" \/ b.content.v = <<>>

\* C13: a call of the endpoint with a malformed body is answered 400 in the
\* step that receives it and changes nothing else: the store is unchanged
\* and no request goes on to the model or to an update.  Every request that
\* did reach the model has a string id and a string content, neither empty.
C13_MalformedBodyRejected ==
  [][/\ directCalls' = directCalls + 1 =>
          \A b \in {c \in DirectBodies : Malformed(c)} :
            Receive(DirectRequest(directCalls + 1, b)) =>
              /\ directStatus' = 400
              /\ journal' = journal /\ nextId' = nextId
              /\ requests' = requests
     /\ \A q \in requests' :
          q.pc # "sent" => (q.id >= 1 /\ q.content # <<>> /\ q.generateCalls = 1)
    ]_vars

\* C13 witness: a call was answered 400; no request is in flight and the
\* store holds what it held before
C13_Witness ==
  /\ directCalls = 1 /\ directStatus = 400
  /\ requests = {}
  /\ journal = <<OtherRow>>

\* C16 as claimed: with u2 starting nothing (the page is u1's, and the
\* endpoint is called with an id of the caller's choice), no step changes or
\* removes an entry owned by u2.
C16_Claim ==
  [][\A i \in DOMAIN journal : journal[i].user_id = "u2" => RowKept(i)]_vars

\* C20: a timer for the delayed re-read is scheduled only in the step that
\* reads a 200 response for the run's own entry; a 200 response only appears
\* in the step in which the store applies the update of that request; and the
\* re-read, when the timer fires, reads the store as it is then, with no
\* request of that run left to be served.  So no timer is scheduled for a run
\* whose endpoint call failed.
C20_RereadAfterUpdate ==
  [][/\ \A t \in mounted : \A e \in timers'[t] \ timers[t] :
          \E q \in Awaited(t) :
            /\ q.pc = "done" /\ q.status = 200 /\ q.updateCalls = 1
            /\ q.id = e /\ e = newEntry[t].id
            /\ LeavesPost(t)
     /\ \A r \in requests' \ requests :
          (r.pc = "done" /\ r.status = 200) =>
            \E q \in requests :
              /\ q.pc = "update" /\ r = Response(q, 200)
              /\ journal' = UpdateInsight(journal, q.id, q.aiInsight)
     /\ \A t \in mounted : \A e \in timers[t] \ timers'[t] :
          /\ fetches'[t] = fetches[t] \cup {SelectJournal(journal, userId[t])}
          /\ \A q \in requests : ~(q.origin = t /\ q.no = e)
    ]_vars

\* C20 witness: the timer of a run is pending and the run's entry already
\* carries the text the update wrote
C20_Witness ==
  \E t \in mounted : \E e \in timers[t] :
    /\ e \in DOMAIN journal
    /\ journal[e].user_id = userId[t]
    /\ journal[e].ai_insight = <<"x">>

\* the lists read and not yet delivered, and the lists on screen
JournalReads  == UNION {fetches[t] : t \in mounted}
JournalLists  == JournalReads \cup {journalEntries[t] : t \in mounted}
MoodLists     == moodFetches \cup {moodEntries}
InsightLists  == insightFetches \cup {allJournalEntries}

\* f holds rows of uid only, newest first, at most limit of them
Scoped(f, uid, limit) ==
  /\ Len(f) <= limit
  /\ \A k \in 1..Len(f) : f[k].user_id = uid
  /\ \A k, l \in 1..Len(f) : k < l => f[k].id > f[l].id

\* f holds the newest rows of uid in table T: a row of uid that is missing
\* is older than every row listed, and then the list is full
Newest(f, T, uid, limit) ==
  /\ \A k \in 1..Len(f) : f[k].id \in DOMAIN T
  /\ \A i \in DOMAIN T :
       (T[i].user_id = uid /\ \A k \in 1..Len(f) : f[k].id # i) =>
         /\ Len(f) = limit
         /\ \A k \in 1..Len(f) : i < f[k].id

\* C15 as claimed: every list read (mood history, journal history, insights
\* list) returns rows of the reader only, newest first, and at most 7 mood
\* rows or 5 journal rows.
C15_Original ==
  /\ \A f \in MoodLists : Scoped(f, user, MoodLimit)
  /\ \A f \in JournalLists : Scoped(f, "u1", JournalLimit)
  /\ \A f \in InsightLists : Scoped(f, user, JournalLimit)

\* C15 as amended: the mood history and the journal history return rows of
\* the reader only, newest first, at most 7 and 5 of them, and these are the
\* newest ones.  The insights list returns rows of the reader only, newest
\* first, but has no limit: it holds every entry of the reader whose
\* ai_insight is set, and no other.
C15_ListReadsScoped ==
  /\ \A f \in MoodLists : Scoped(f, user, MoodLimit)
  /\ \A f \in moodFetches : Newest(f, moodTable, user, MoodLimit)
  /\ \A t \in mounted : \A f \in fetches[t] \cup {journalEntries[t]} :
       Scoped(f, userId[t], JournalLimit)
  /\ \A t \in mounted : \A f \in fetches[t] :
       Newest(f, journal, userId[t], JournalLimit)
  /\ \A f \in InsightLists :
       /\ Scoped(f, user, Len(f))
       /\ \A k \in 1..Len(f) : f[k].ai_insight # NULL
  /\ \A f \in insightFetches :
       Len(f) = Cardinality({i \in DOMAIN journal :
                               /\ journal[i].user_id = user
                               /\ journal[i].ai_insight # NULL})

\* C15 witness: over a store of six annotated entries of the reader the
\* journal history shows five and the insights list six
C15_Witness ==
  /\ Len(journalEntries["t1"]) = JournalLimit
  /\ Len(allJournalEntries) = JournalLimit + 1

\* C17: a mood row never changes while it is in the table (owner, mood and
\* note stay as inserted).  The table gains a row only when an insert
\* returns: one row under a fresh id, with the owner, the mood and the note
\* (trimmed, null when blank) that were submitted.  It loses a row only when
\* a delete naming that row returns.  A step of the generate-insight endpoint
\* leaves the table as it is, whatever id it is called with.
C17_MoodRowsImmutable ==
  [][/\ \A i \in DOMAIN moodTable \cap DOMAIN moodTable' :
          moodTable'[i] = moodTable[i]
     /\ \A i \in DOMAIN moodTable' \ DOMAIN moodTable :
          /\ i = nextMoodId /\ nextMoodId' = i + 1
          /\ isSubmittingMood /\ ~isSubmittingMood'
          /\ moodTable'[i].user_id = user
          /\ moodTable'[i].mood = selectedMood /\ selectedMood \in Moods
          /\ moodTable'[i].note =
               (IF Blank(moodNote) THEN NULL ELSE trim(moodNote))
          /\ DOMAIN moodTable \subseteq DOMAIN moodTable'
     /\ \A i \in DOMAIN moodTable \ DOMAIN moodTable' :
          /\ i \in moodDeletes /\ i \notin moodDeletes'
          /\ moodTable[i].user_id = user
          /\ DOMAIN moodTable' = DOMAIN moodTable \ {i}
     /\ (requests' # requests \/ directCalls' # directCalls
                             \/ journal' # journal) =>
          moodTable' = moodTable
    ]_vars

\* C17 witness: the endpoint was called with the id 1 and has rewritten the
\* journal entry 1, while the mood rows 1 and 2 are in the table
C17_Witness ==
  /\ directStatus = 200
  /\ journal[1].ai_insight # OtherRow.ai_insight
  /\ DOMAIN moodTable = {1, 2}
  /\ moodTable[1] = OtherMood
  /\ moodTable[2] = [user_id |-> "u1", mood |-> "Happy", note |-> <<"n">>]

\* C18: with two windows of one owner submitting at the same time, in every
\* interleaving: the runs hold different entry ids; a request names the id
\* its own insert returned and carries the content of that entry; and an
\* entry's ai_insight changes only by the update of the request of its own
\* run, to the text the model returned for that request (null when blank),
\* every other entry staying as it is.
C18_ConcurrentRunsKeepApart ==
  [][/\ \A t, u \in mounted :
          (t # u /\ pc[t] = "post" /\ pc[u] = "post") =>
            newEntry[t].id # newEntry[u].id
     /\ \A p, q \in requests : (p.no = q.no) => p = q
     /\ \A q \in requests :
          /\ q.body.parsed =>
               /\ q.body.id.v = q.no
               /\ q.body.content.v = journal[q.no].content
          /\ q.pc \in {"generate", "update"} =>
               /\ q.id = q.no
               /\ q.content = journal[q.no].content
     /\ \A i \in DOMAIN journal \cap DOMAIN journal' :
          journal'[i] # journal[i] =>
            \E q \in requests :
              /\ q.pc = "update" /\ q.no = i /\ q.id = i
              /\ q.content = journal[i].content
              /\ journal'[i] =
                   [journal[i] EXCEPT
                      !.ai_insight = IF Blank(q.text) THEN NULL ELSE q.text]
              /\ \A k \in DOMAIN journal : k # i => journal'[k] = journal[k]
    ]_vars

\* C18 witness: the entry of the second window is annotated and its response
\* is on its way, while the update for the entry of the first window is
\* still in flight
C18_Witness ==
  \E p, q \in requests :
    /\ p.origin = "t1" /\ p.pc = "update" /\ p.text = <<"x">>
    /\ journal[p.id].content = <<"a">> /\ journal[p.id].ai_insight = NULL
    /\ q.origin = "t2" /\ q.pc = "done" /\ q.status = 200
    /\ journal[q.id].content = <<"b">> /\ journal[q.id].ai_insight = <<"x">>

\* the texts that tell the user of a failure
ErrorTexts ==
  {MsgError, MsgAiFailed, MsgLoadFailed, MsgLinkFailed, MsgMoodsFailed,
   MsgInsightsFailed}

\* C14 as claimed (auth calls): when getSession(), signOut() or
\* signInWithOtp() fails, the step that handles the failure puts an error
\* text on screen.
C14_Claim ==
  [][(getSessionThrows \/ onLogoutError \/ LoginError) =>
       Rendered' \in ErrorTexts
    ]_vars

\* a step that hands an event to the listener
Delivers == authEvents # <<>> /\ authEvents' = Tail(authEvents)

\* C19: the step that handles a signed-in event sets the user and shows the
\* dashboard; the step that handles a signed-out event sets the user to null
\* and shows the landing page, whatever was shown before.  The step in which
\* signOut() is called (a signed-out event is queued) changes neither view
\* nor user, and the dashboard is only ever left by handling an event or the
\* result of getSession().
C19_AuthEventsDriveView ==
  [][/\ Delivers =>
          /\ Head(authEvents).event = "SIGNED_IN" =>
               /\ user' = Head(authEvents).user /\ user' \in Users
               /\ currentView' = "dashboard"
          /\ Head(authEvents).event = "SIGNED_OUT" =>
               /\ user' = NoUser
               /\ currentView' = "landing"
     /\ Len(authEvents') > Len(authEvents) =>
          /\ currentView' = currentView
          /\ user' = user
     /\ (currentView = "dashboard" /\ currentView' # "dashboard") =>
          \/ Delivers /\ Head(authEvents).user = NoUser
          \/ authPc \in {"getSession", "read"} /\ authPc' \in {"done", "failed"}
    ]_vars

\* C19 witness: a user was signed in, logged out from the dashboard, and the
\* signed-out event has been handled
C19_Witness ==
  /\ authCalls >= 2 /\ session = NoUser /\ authEvents = <<>>
  /\ authPc = "done"
  /\ currentView = "landing" /\ user = NoUser

C22_DeclinedDeleteChangesNothing ==
  [][/\ declined' # declined =>
          /\ journal' = journal /\ moodTable' = moodTable
          /\ journalEntries' = journalEntries /\ moodEntries' = moodEntries
          /\ message' = message /\ moodMessage' = moodMessage
          /\ deletes' = deletes /\ moodDeletes' = moodDeletes
          /\ fetches' = fetches /\ moodFetches' = moodFetches
          /\ requests' = requests /\ deleteCalls' = deleteCalls
     /\ \A i \in DOMAIN journal \ DOMAIN journal' :
          \E t \in mounted : i \in deletes[t] /\ i \notin deletes'[t]
     /\ \A i \in DOMAIN moodTable \ DOMAIN moodTable' :
          i \in moodDeletes /\ i \notin moodDeletes'
     /\ (deletes' # deletes \/ moodDeletes' # moodDeletes) =>
          declined' = declined
    ]_vars

\* C22 witness: the journal list is on screen, a later list read has failed,
\* and the delete of entry 2, of u1, was declined: the entry is in the table
\* and on screen, and no delete was sent
C22_Witness ==
  /\ declined = <<"journal", 2>>
  /\ deleteCalls = 0 /\ deletes["t1"] = {}
  /\ 2 \in DOMAIN journal /\ journal[2].user_id = "u1"
  /\ \E k \in DOMAIN journalEntries["t1"] : journalEntries["t1"][k].id = 2
  /\ message["t1"] = MsgLoadFailed

\* C23: an id that has left the journal table never comes back.  In
\* particular, when an entry was deleted while the request of its own
\* submission was still with the endpoint, the step in which that request's
\* update is applied (or fails) creates no row and leaves every row of the
\* table as it was, wherever the delete fell between the insert, the model
\* call and the update.
C23_DeletedEntryStaysDeleted ==
  [][/\ \A i \in 1..(nextId - 1) :
          i \notin DOMAIN journal => i \notin DOMAIN journal'
     /\ \A q \in requests :
          (q.pc = "update" /\ q \notin requests'
             /\ q.id \notin DOMAIN journal) =>
            journal' = journal
    ]_vars

\* C23 witness: the entry of the running submission was deleted by its owner
\* after the insert, no other caller is involved, and the update for that
\* entry, with the text the model returned, is about to be applied
C23_Witness ==
  /\ directCalls = 0 /\ deleteCalls = 1
  /\ \E q \in requests :
       /\ q.origin = "t1" /\ q.pc = "update" /\ q.aiInsight # NULL
       /\ q.id = newEntry["t1"].id /\ pc["t1"] = "post"
       /\ q.id \in 1..(nextId - 1) /\ q.id \notin DOMAIN journal
       /\ deletes["t1"] = {}

\* C24 as claimed: when the timer of a submission shows the full-success
\* message 'Journal entry saved and AI insight generated!', the entry that
\* submission created is in the store and its ai_insight is not null.
C24_Claim ==
  [][\A t \in mounted : \A e \in timers[t] \ timers'[t] :
       message'[t] = MsgInsight =>
         /\ e \in DOMAIN journal'
         /\ journal'[e].ai_insight # NULL
    ]_vars

\* C25 as claimed: an error message shown at the end of the latest operation
\* is not replaced by the success message of an earlier one.  With no delete
\* requested, 'Error: ...' on screen is the outcome of the latest submission
\* (its insert failed, so it scheduled no timer), and the full-success
\* message can only come from the timer of a submission before it.
C25_Claim ==
  [][\A t \in mounted :
       (deleteCalls = 0 /\ message[t] = MsgError) => message'[t] # MsgInsight
    ]_vars

\* C26 as claimed: when every list read of a tab has returned and nothing is
\* in flight, the displayed list is the result of the read issued last.
\* Stated for the runs where that result is known from the state: no delete
\* and no other caller, one entry inserted so far, and the full-success
\* message on screen.  The read issued last is then the one of the timer,
\* issued after the only update, so its result is the owner's list as the
\* store holds it now.
C26_Claim ==
  \A t \in mounted :
    (/\ directCalls = 0 /\ deleteCalls = 0
     /\ nextId = Cardinality(DOMAIN journal) + 1
     /\ Cardinality({i \in DOMAIN journal : journal[i].user_id = userId[t]}) = 1
     /\ message[t] = MsgInsight
     /\ pc[t] = "idle" /\ fetches[t] = {} /\ timers[t] = {}
     /\ requests = {}) =>
      journalEntries[t] = SelectJournal(journal, userId[t])

\* C27: in one JournalTab, while handleSubmitJournal is suspended on its
\* insert or on its endpoint call, isSubmittingJournal is true (and
\* isGeneratingInsight too during the endpoint call), so the Save button is
\* disabled and the tab awaits at most one endpoint request; whenever no run
\* is suspended, whichever way the last one ended, both flags are false and
\* the button is enabled again.
C27_OneSubmissionInFlight ==
  \A t \in mounted :
    /\ pc[t] \in {"insert", "post"} =>
         isSubmittingJournal[t] /\ SubmitDisabled(t)
    /\ pc[t] = "post" <=> isGeneratingInsight[t]
    /\ pc[t] = "idle" <=> ~SubmitDisabled(t)
    /\ pc[t] = "idle" => ~isSubmittingJournal[t] /\ ~isGeneratingInsight[t]
    /\ Cardinality(Awaited(t)) <= 1
    /\ pc[t] # "post" => Awaited(t) = {}

\* C27 witness: a second submission of the tab is waiting for the endpoint,
\* with both flags set, after its first one has ended
C27_Witness ==
  /\ pc["t1"] = "post"
  /\ isSubmittingJournal["t1"] /\ isGeneratingInsight["t1"]
  /\ newEntry["t1"].id = 2
  /\ \E i \in DOMAIN journal : journal[i].user_id = "u1" /\ i = 1
  /\ \E q \in Awaited("t1") : q.pc = "generate"

\* C28 as claimed: once initializeAuth has got the result of getSession()
\* and every auth event that was delivered has been handled, the user state
\* is the latest session (set exactly when a session is present), and the
\* landing page is not shown while a session is present.
C28_Claim ==
  (authPc = "done" /\ authEvents = <<>>) =>
    /\ user = session
    /\ session # NoUser => currentView # "landing"

\* C29: DashboardPage is rendered only with a user: whenever currentView is
\* 'dashboard' and user is null, renderContent returns nothing of the
\* dashboard (null, or the Loading screen while isLoading), and once Home is
\* not loading that render sends the view to 'landing', leaving user null.
C29_DashboardNeedsUser ==
  /\ [](/\ Page = "DashboardPage" =>
             currentView = "dashboard" /\ user # NoUser /\ ~isLoading
        /\ (currentView = "dashboard" /\ user = NoUser) =>
             /\ Page \in {"null", "Loading"}
             /\ ~isLoading => Page = "null" /\ ENABLED renderContent)
  /\ [][renderContent =>
          /\ currentView = "dashboard" /\ user = NoUser
          /\ currentView' = "landing" /\ user' = NoUser
       ]_vars

\* C29 witness: Home is not loading, with the view 'dashboard' and no user:
\* the render returns null
C29_Witness ==
  /\ currentView = "dashboard" /\ user = NoUser /\ ~isLoading
  /\ Page = "null"

\* the insights list f has a row for the entry i
Listed(f, i) == \E k \in 1..Len(f) : f[k].id = i

====
